---- MODULE Spec2Model ----
(***************************************************************************)
(* Efficiency scoring and daily-statistics maintenance of the productivity *)
(* application: the pure score function (lib/efficiency), the updater that  *)
(* recomputes today's user_stats row, and the two call sites that trigger   *)
(* it (the focus timer and the task calendar).                              *)
(***************************************************************************)
EXTENDS Integers, Sequences, FiniteSets, TLC

(***************************************************************************)
(* JavaScript numbers are IEEE-754 doubles.  calculateEfficiency divides,   *)
(* multiplies by 0.35 / 0.30 and rounds, and the rounded result depends on  *)
(* the double arithmetic (90 * 0.35 is 31.499999999999996, not 31.5).  The  *)
(* operators below are that arithmetic: a double is [m, e], standing for    *)
(* m * 2^e, with m a natural number kept as a little-endian sequence of     *)
(* 15-bit limbs, and every operation rounds its exact result to 53          *)
(* significant bits, ties to even.  All values here are finite, normal and  *)
(* non-negative.                                                            *)
(***************************************************************************)
LimbBits == 15
Base == 2^LimbBits
MantBits == 53

Min(a, b) == IF a <= b THEN a ELSE b
Max(a, b) == IF a >= b THEN a ELSE b

RECURSIVE BTrim(_)
BTrim(s) ==
  IF s = <<>> THEN s
  ELSE IF s[Len(s)] = 0 THEN BTrim(SubSeq(s, 1, Len(s) - 1)) ELSE s

RECURSIVE BFromInt(_)
BFromInt(n) == IF n = 0 THEN <<>> ELSE <<n % Base>> \o BFromInt(n \div Base)

RECURSIVE BToInt(_)
BToInt(s) == IF s = <<>> THEN 0 ELSE s[1] + Base * BToInt(Tail(s))

RECURSIVE BAddC(_, _, _)
BAddC(a, b, c) ==
  IF a = <<>> /\ b = <<>> THEN (IF c = 0 THEN <<>> ELSE <<c>>)
  ELSE LET x == IF a = <<>> THEN 0 ELSE a[1]
           y == IF b = <<>> THEN 0 ELSE b[1]
           t == x + y + c
       IN <<t % Base>> \o BAddC(IF a = <<>> THEN a ELSE Tail(a),
                                 IF b = <<>> THEN b ELSE Tail(b), t \div Base)

BAdd(a, b) == BAddC(a, b, 0)

\* a - b for a >= b
RECURSIVE BSubC(_, _, _)
BSubC(a, b, c) ==
  IF a = <<>> THEN <<>>
  ELSE LET y == IF b = <<>> THEN 0 ELSE b[1]
           t == a[1] - y - c
       IN <<t % Base>> \o BSubC(Tail(a), IF b = <<>> THEN b ELSE Tail(b),
                                 IF t < 0 THEN 1 ELSE 0)

BSub(a, b) == BTrim(BSubC(a, b, 0))

\* a * k for 0 <= k < Base
RECURSIVE BMulSmallC(_, _, _)
BMulSmallC(a, k, c) ==
  IF a = <<>> THEN BFromInt(c)
  ELSE LET t == a[1] * k + c
       IN <<t % Base>> \o BMulSmallC(Tail(a), k, t \div Base)

BMulSmall(a, k) == BTrim(BMulSmallC(a, k, 0))

RECURSIVE BMul(_, _)
BMul(a, b) ==
  IF b = <<>> \/ a = <<>> THEN <<>>
  ELSE LET rest == BMul(a, Tail(b))
       IN BAdd(BMulSmall(a, b[1]), IF rest = <<>> THEN rest ELSE <<0>> \o rest)

\* quotient and remainder of a by d, 0 < d < Base
RECURSIVE BDivSmall(_, _)
BDivSmall(a, d) ==
  IF a = <<>> THEN [q |-> <<>>, r |-> 0]
  ELSE LET hi  == BDivSmall(Tail(a), d)
           cur == hi.r * Base + a[1]
       IN [q |-> BTrim(<<cur \div d>> \o hi.q), r |-> cur % d]

\* -1, 0, 1 as a < b, a = b, a > b (both trimmed)
RECURSIVE BCmp(_, _)
BCmp(a, b) ==
  IF Len(a) # Len(b) THEN (IF Len(a) < Len(b) THEN -1 ELSE 1)
  ELSE IF a = <<>> THEN 0
  ELSE IF a[Len(a)] # b[Len(b)] THEN (IF a[Len(a)] < b[Len(b)] THEN -1 ELSE 1)
  ELSE BCmp(SubSeq(a, 1, Len(a) - 1), SubSeq(b, 1, Len(b) - 1))

RECURSIVE IntBitLen(_)
IntBitLen(n) == IF n = 0 THEN 0 ELSE 1 + IntBitLen(n \div 2)

BBitLen(a) == IF a = <<>> THEN 0 ELSE (Len(a) - 1) * LimbBits + IntBitLen(a[Len(a)])

BShl(a, k) ==
  IF a = <<>> THEN a
  ELSE [i \in 1..(k \div LimbBits) |-> 0] \o BMulSmall(a, 2^(k % LimbBits))

BShr(a, k) ==
  IF k \div LimbBits >= Len(a) THEN <<>>
  ELSE BDivSmall(SubSeq(a, (k \div LimbBits) + 1, Len(a)), 2^(k % LimbBits)).q

\* the double nearest to n * 2^e (exactly so when sticky is FALSE; when
\* sticky is TRUE the exact value lies strictly between n and n+1 units),
\* ties to even
FRound(n, sticky, e) ==
  LET len == BBitLen(n)
  IN IF len <= MantBits THEN [m |-> n, e |-> e]
     ELSE LET k    == len - MantBits
              q    == BShr(n, k)
              low  == BSub(n, BShl(q, k))
              half == BShl(<<1>>, k - 1)
              c    == BCmp(low, half)
              up   == c > 0 \/ (c = 0 /\ (sticky \/ q[1] % 2 = 1))
          IN [m |-> IF up THEN BAdd(q, <<1>>) ELSE q, e |-> e + k]

FInt(n) == [m |-> BFromInt(n), e |-> 0]

FMul(x, y) == FRound(BMul(x.m, y.m), FALSE, x.e + y.e)

\* x / y for a divisor y that is a positive integer below Base
FDiv(x, y) ==
  LET d  == BToInt(BShl(y.m, y.e))
      s  == Max(0, MantBits + 2 + IntBitLen(d) - BBitLen(x.m))
      qr == BDivSmall(BShl(x.m, s), d)
  IN IF x.m = <<>> THEN x ELSE FRound(qr.q, qr.r # 0, x.e - s)

FAdd(x, y) ==
  LET e0 == Min(x.e, y.e)
  IN FRound(BAdd(BShl(x.m, x.e - e0), BShl(y.m, y.e - e0)), FALSE, e0)

\* x - y for x >= y
FSub(x, y) ==
  LET e0 == Min(x.e, y.e)
  IN FRound(BSub(BShl(x.m, x.e - e0), BShl(y.m, y.e - e0)), FALSE, e0)

FCmp(x, y) ==
  LET e0 == Min(x.e, y.e)
  IN BCmp(BTrim(BShl(x.m, x.e - e0)), BTrim(BShl(y.m, y.e - e0)))

FMin(x, y) == IF FCmp(x, y) <= 0 THEN x ELSE y
FMax(x, y) == IF FCmp(x, y) >= 0 THEN x ELSE y

\* Math.round of a non-negative double: floor(x + 1/2), computed exactly
MathRound(x) ==
  IF x.e >= 0 THEN BToInt(BShl(x.m, x.e))
  ELSE LET ip   == BShr(x.m, 0 - x.e)
           low  == BSub(x.m, BShl(ip, 0 - x.e))
           half == BShl(<<1>>, (0 - x.e) - 1)
       IN BToInt(ip) + (IF BCmp(low, half) >= 0 THEN 1 ELSE 0)

\* the doubles the literals 0.35 and 0.30 denote
Weight35 == [m |-> <<26214, 19660, 6553, 179>>, e |-> 0 - 54]
Weight30 == [m |-> <<13107, 26214, 19660, 153>>, e |-> 0 - 54]

(***************************************************************************)
(* calculateEfficiency (lib/efficiency)                                     *)
(***************************************************************************)
\* TaskScore without the cap at 100
TaskScoreUncapped(tasksPlanned, tasksCompleted) ==
  IF tasksPlanned > 0
    THEN FMul(FDiv(FInt(tasksCompleted), FInt(tasksPlanned)), FInt(100))
    ELSE FInt(tasksCompleted * 20)

\* TaskScore crediting 10 points for each task completed when none was planned
TaskScoreTenEach(tasksPlanned, tasksCompleted) ==
  IF tasksPlanned > 0
    THEN FMin(FInt(100), FMul(FDiv(FInt(tasksCompleted), FInt(tasksPlanned)), FInt(100)))
    ELSE FInt(Min(100, tasksCompleted * 10))

\* Component 1: task completion
TaskScore(tasksPlanned, tasksCompleted) ==
  IF tasksPlanned > 0
    THEN FMin(FInt(100), FMul(FDiv(FInt(tasksCompleted), FInt(tasksPlanned)), FInt(100)))
    ELSE FInt(Min(100, tasksCompleted * 20))

\* PomodoroScore with no penalty above the ideal range
PomodoroScoreNoPenalty(pomodorosSessions) ==
  IF pomodorosSessions < 6
    THEN FMul(FDiv(FInt(pomodorosSessions), FInt(6)), FInt(100))
    ELSE FInt(100)

\* Component 2: pomodoro consistency, ideal range 6..10
PomodoroScore(pomodorosSessions) ==
  IF pomodorosSessions < 6
    THEN FMul(FDiv(FInt(pomodorosSessions), FInt(6)), FInt(100))
  ELSE IF pomodorosSessions > 10
    THEN FInt(Max(70, 100 - (pomodorosSessions - 10) * 5))
  ELSE FInt(100)

\* Component 3: focus time quality, ideal range 120..360 minutes
FocusScore(focusTime) ==
  IF focusTime < 120
    THEN FMul(FDiv(FInt(focusTime), FInt(120)), FInt(100))
  ELSE IF focusTime > 360
    THEN FMax(FInt(80), FSub(FInt(100), FMul(FDiv(FInt(focusTime - 360), FInt(60)), FInt(3))))
  ELSE FInt(100)

\* WeightedSum with the weight 0.35 on all three components
WeightedSumEqualWeights(tasksPlanned, tasksCompleted, pomodorosSessions, focusTime) ==
  LET e1 == IF tasksCompleted > 0
              THEN FAdd(FInt(0), FMul(TaskScore(tasksPlanned, tasksCompleted), Weight35))
              ELSE FInt(0)
      e2 == IF pomodorosSessions > 0
              THEN FAdd(e1, FMul(PomodoroScore(pomodorosSessions), Weight35))
              ELSE e1
      e3 == IF focusTime > 0
              THEN FAdd(e2, FMul(FocusScore(focusTime), Weight35))
              ELSE e2
  IN e3

\* the value of the local `efficiency` before the final clamp and rounding
WeightedSum(tasksPlanned, tasksCompleted, pomodorosSessions, focusTime) ==
  LET e1 == IF tasksCompleted > 0
              THEN FAdd(FInt(0), FMul(TaskScore(tasksPlanned, tasksCompleted), Weight35))
              ELSE FInt(0)
      e2 == IF pomodorosSessions > 0
              THEN FAdd(e1, FMul(PomodoroScore(pomodorosSessions), Weight35))
              ELSE e1
      e3 == IF focusTime > 0
              THEN FAdd(e2, FMul(FocusScore(focusTime), Weight30))
              ELSE e2
  IN e3

\* calculateEfficiency with every Math.min / Math.max clamp left out
calculateEfficiencyUnclamped(tasksPlanned, tasksCompleted, pomodorosSessions, focusTime) ==
  IF tasksCompleted = 0 /\ pomodorosSessions = 0 /\ focusTime = 0 THEN 0
  ELSE LET e1 == IF tasksCompleted > 0
                   THEN FMul(IF tasksPlanned > 0
                               THEN FMul(FDiv(FInt(tasksCompleted), FInt(tasksPlanned)), FInt(100))
                               ELSE FInt(tasksCompleted * 20), Weight35)
                   ELSE FInt(0)
           e2 == IF pomodorosSessions > 0
                   THEN FAdd(e1, FMul(PomodoroScore(pomodorosSessions), Weight35))
                   ELSE e1
           e3 == IF focusTime > 0
                   THEN FAdd(e2, FMul(FocusScore(focusTime), Weight30))
                   ELSE e2
       IN MathRound(e3)

\* calculateEfficiency without the no-activity return and with the > 0 guards
\* folded into the range tests, so that a zero count keeps the default
\* sub-score 100
calculateEfficiencyNoGuard(tasksPlanned, tasksCompleted, pomodorosSessions, focusTime) ==
  LET e1 == IF tasksCompleted > 0
              THEN FMul(TaskScore(tasksPlanned, tasksCompleted), Weight35)
              ELSE FInt(0)
      e2 == FAdd(e1, FMul(IF pomodorosSessions > 0 THEN PomodoroScore(pomodorosSessions)
                                                   ELSE FInt(100), Weight35))
      e3 == FAdd(e2, FMul(IF focusTime > 0 THEN FocusScore(focusTime) ELSE FInt(100), Weight30))
  IN MathRound(FMin(FInt(100), FMax(FInt(0), e3)))

calculateEfficiency(tasksPlanned, tasksCompleted, pomodorosSessions, focusTime) ==
  IF tasksCompleted = 0 /\ pomodorosSessions = 0 /\ focusTime = 0 THEN 0
  ELSE MathRound(FMin(FInt(100), FMax(FInt(0),
         WeightedSum(tasksPlanned, tasksCompleted, pomodorosSessions, focusTime))))

(***************************************************************************)
(* Bounds of the model                                                      *)
(***************************************************************************)
MaxDay == 2          \* calendar days 1..MaxDay
MaxTime == 1         \* times of day 0..MaxTime a task form can hold
MaxTaskIds == 2      \* rows the tasks table can hold
MaxCompleted == 4    \* no completion is started above this stored tasks_completed
MaxCycles == 1       \* no work interval is ended above this cycleCount
MaxRounds == 8       \* the same, where the timer runs through its rounds
MaxStreakDays == 5   \* Analytics reads rows of the calendar days 1..MaxStreakDays
MaxTasks == 12       \* calculateEfficiency is called with tasks 0..MaxTasks,
MaxPomodoros == 17   \* pomodoro sessions 0..MaxPomodoros
MaxFocus == 780      \* and focus minutes 0..MaxFocus
MaxDelta == 1        \* updateDailyEfficiency is called with additionalTasks 0..MaxDelta

Dates == 1..MaxDay
Times == 0..MaxTime
TaskIds == 1..MaxTaskIds
Procs == {"tab1"}

(***************************************************************************)
(* Constants of store/pomodoroStore                                         *)
(***************************************************************************)
WORK_DURATION == 25 * 60
SHORT_BREAK == 5 * 60
LONG_BREAK == 15 * 60

NoStrategy == [workDuration |-> 0, breakDuration |-> 0]
\* what FocusAssistant hands to onStrategyReceived: the minutes of the
\* recommend_daily_strategy tool call times 60 (its own example: 50/10)
Strategies == {[workDuration |-> 50 * 60, breakDuration |-> 10 * 60]}

\* remaining seconds at which the Complete button is pressed
CompleteTimes == {0, 750, WORK_DURATION, 2250, 3000, SHORT_BREAK, LONG_BREAK, 600}

(***************************************************************************)
(* State                                                                    *)
(***************************************************************************)
VARIABLES
  user_stats,        \* table user_stats of the signed-in user: date -> row or NoRow
  tasks,             \* table tasks of the signed-in user: id -> row or NoTask
  today,             \* the date new Date().toISOString().split('T')[0] yields
  authenticated,     \* supabase.auth.getUser() yields a user
  timeLeft, isRunning, isBreak, cycleCount, status,   \* usePomodoroStore
  focusStrategy, task,                                \* usePomodoroStore
  currentSessionId,  \* the pomodoro_sessions row the id names: its duration and mode
  pc,                \* per tab: the await the running handler is suspended at
  loc,               \* per tab: arguments, closure and locals of the handler
  params, result,    \* a call of calculateEfficiency and what it returned
  analytics,         \* Analytics: the user_stats rows by date, the clock and its zone
  streak             \* Analytics: stats.streak, -1 until fetchAnalytics has set it

storeVars == <<user_stats, tasks, today, authenticated>>
timerVars == <<timeLeft, isRunning, isBreak, cycleCount, status, focusStrategy, task, currentSessionId>>
procVars == <<pc, loc>>
calcVars == <<params, result, analytics, streak>>
vars == <<user_stats, tasks, today, authenticated,
          timeLeft, isRunning, isBreak, cycleCount, status, focusStrategy, task,
          currentSessionId, pc, loc, params, result, analytics, streak>>

NoRow == [exists |-> FALSE, focus_time |-> 0, pomodoro_sessions |-> 0,
          tasks_completed |-> 0, efficiency_score |-> 0]
NoTask == [exists |-> FALSE, day |-> 0, start_time |-> 0, end_time |-> 0, completed |-> FALSE]
NoParams == [tasksPlanned |-> 0 - 1, tasksCompleted |-> 0 - 1,
             pomodorosSessions |-> 0 - 1, focusTime |-> 0 - 1]
NoSession == [duration |-> 0, mode |-> "none"]
\* the Analytics page has not been opened
NoAnalytics == [rows |-> <<>>, now |-> 0, offset |-> 0, data |-> "pending"]
\* the task dialog: required fields filled in, date (0: not a date), times
NoForm == [filled |-> FALSE, day |-> 0, start_time |-> 0, end_time |-> 0]
Forms == [filled : BOOLEAN, day : Dates \cup {0}, start_time : Times, end_time : Times]

\* a user_stats row; columns an insert leaves out take the column default 0
Row(f, p, t, e) == [exists |-> TRUE, focus_time |-> f, pomodoro_sessions |-> p,
                    tasks_completed |-> t, efficiency_score |-> e]

\* the updater call before this one: its argument and how it ended
NoCall == [additionalTasks |-> 0 - 1, ude |-> "none", failed |-> FALSE]

\* locals of a handler that has not run
NoLocals == [op |-> "none", manual |-> FALSE,
             cIsBreak |-> FALSE, cTimeLeft |-> 0, cCycleCount |-> 0, cStrategy |-> NoStrategy,
             taskId |-> 0, completed |-> FALSE, form |-> NoForm,
             focusMin |-> 0, hToday |-> 0, stats |-> NoRow,
             additionalTasks |-> 0, uToday |-> 0, uStats |-> NoRow,
             tasksPlanned |-> 0, efficiency |-> 0,
             toast |-> "none", pre |-> NoRow, failed |-> FALSE,
             ude |-> "none", udeWrites |-> 0, prev |-> NoCall]

(***************************************************************************)
(* updateDailyEfficiency (lib/efficiency), one step per awaited store call  *)
(***************************************************************************)
\* a || b on numbers: b when a is 0
OrElse(a, b) == IF a # 0 THEN a ELSE b

\* Math.round(n / 60) of an integer n of either sign: floor(n/60 + 1/2)
RoundMinutes(n) == (n + 30) \div 60

\* the rows .gte('start_time', today 00:00:00).lte('start_time', today 23:59:59) selects
TasksOn(d) == {id \in TaskIds : tasks[id].exists /\ tasks[id].day = d}

\* what is left of a handler's locals once it has returned: which handler
\* ran, on what, and how it and the updater ended
Returned(l) ==
  [NoLocals EXCEPT !.op = l.op, !.manual = l.manual, !.completed = l.completed,
                   !.additionalTasks = l.additionalTasks, !.toast = l.toast,
                   !.failed = l.failed, !.ude = l.ude, !.udeWrites = l.udeWrites,
                   !.prev = l.prev]

Return(p, l) ==
  /\ pc' = [pc EXCEPT ![p] = "idle"]
  /\ loc' = [loc EXCEPT ![p] = Returned(l)]

\* what runs after the awaited handler body: the tail of handleTimerEnd
\* (lines 154-167), on the values its closure captured; other handlers only
\* refresh the view
Finish(p, l) ==
  /\ Return(p, IF l.op = "toggleTaskCompletion" THEN [l EXCEPT !.toast = "Task completed!"] ELSE l)
  /\ IF l.op = "handleTimerEnd"
       THEN /\ IF l.cIsBreak
                 THEN /\ isBreak' = FALSE
                      /\ status' = "Focus Time"
                      /\ timeLeft' = OrElse(l.cStrategy.workDuration, WORK_DURATION)
                      /\ cycleCount' = cycleCount
                 ELSE LET next == l.cCycleCount + 1
                      IN /\ cycleCount' = next
                         /\ timeLeft' = OrElse(l.cStrategy.breakDuration,
                                               IF next % 4 = 0 THEN LONG_BREAK ELSE SHORT_BREAK)
                         /\ status' = (IF next % 4 = 0 THEN "Long Break" ELSE "Short Break")
                         /\ isBreak' = TRUE
            /\ task' = FALSE
            /\ UNCHANGED <<isRunning, focusStrategy, currentSessionId>>
       ELSE UNCHANGED timerVars

\* entry of updateDailyEfficiency(supabase, userId, additionalTasks), up to
\* its first await
UdeCall(l, additionalTasks) ==
  [l EXCEPT !.additionalTasks = additionalTasks, !.uToday = today]

\* UdeSelect that throws the fetch error: the caller's code after the await
\* does not run (toggleTaskCompletion catches and reports it)
UdeSelectThrows(p) ==
  /\ pc[p] = "ude_select"
  /\ \E ok \in BOOLEAN :
       LET l == loc[p]
           row == user_stats[l.uToday]
       IN IF ~ok
            THEN /\ Return(p, [l EXCEPT !.ude = "fetchError", !.failed = TRUE,
                                        !.toast = "Unexpected error updating task"])
                 /\ UNCHANGED <<storeVars, timerVars, calcVars>>
          ELSE IF ~row.exists
            THEN /\ Finish(p, [l EXCEPT !.ude = "noStats"])
                 /\ UNCHANGED <<storeVars, calcVars>>
          ELSE /\ pc' = [pc EXCEPT ![p] = "ude_tasks"]
               /\ loc' = [loc EXCEPT ![p] = [l EXCEPT !.uStats = row]]
               /\ UNCHANGED <<storeVars, timerVars, calcVars>>

\* UdeSelect as an upsert: a missing row is created and then scored
UdeSelectUpsert(p) ==
  /\ pc[p] = "ude_select"
  /\ \E ok \in BOOLEAN :
       LET l == loc[p]
           row == user_stats[l.uToday]
       IN IF ~ok
            THEN /\ Finish(p, [l EXCEPT !.ude = "fetchError", !.failed = TRUE])
                 /\ UNCHANGED <<storeVars, calcVars>>
          ELSE /\ pc' = [pc EXCEPT ![p] = "ude_tasks"]
               /\ loc' = [loc EXCEPT ![p] = [l EXCEPT !.uStats =
                            IF row.exists THEN row ELSE Row(0, 0, 0, 0)]]
               /\ user_stats' = IF row.exists THEN user_stats
                                ELSE [user_stats EXCEPT ![l.uToday] = Row(0, 0, 0, 0)]
               /\ UNCHANGED <<tasks, today, authenticated, timerVars, calcVars>>

\* lines 89-105: the fetch of today's row; an error or no row returns
UdeSelect(p) ==
  /\ pc[p] = "ude_select"
  /\ \E ok \in BOOLEAN :
       LET l == loc[p]
           row == user_stats[l.uToday]
       IN IF ~ok
            THEN /\ Finish(p, [l EXCEPT !.ude = "fetchError", !.failed = TRUE])
                 /\ UNCHANGED <<storeVars, calcVars>>
          ELSE IF ~row.exists
            THEN /\ Finish(p, [l EXCEPT !.ude = "noStats"])
                 /\ UNCHANGED <<storeVars, calcVars>>
          ELSE /\ pc' = [pc EXCEPT ![p] = "ude_tasks"]
               /\ loc' = [loc EXCEPT ![p] = [l EXCEPT !.uStats = row]]
               /\ UNCHANGED <<storeVars, timerVars, calcVars>>

\* UdeTasks counting only the tasks still open as planned
UdeTasksOpenOnly(p) ==
  /\ pc[p] = "ude_tasks"
  /\ \E ok \in BOOLEAN :
       LET l == loc[p]
           tasksPlanned == IF ok THEN Cardinality({id \in TasksOn(l.uToday) : ~tasks[id].completed})
                                 ELSE 0
           tasksCompleted == l.uStats.tasks_completed + l.additionalTasks
           efficiency == calculateEfficiency(tasksPlanned, tasksCompleted,
                            l.uStats.pomodoro_sessions, l.uStats.focus_time)
       IN /\ pc' = [pc EXCEPT ![p] = "ude_update"]
          /\ loc' = [loc EXCEPT ![p] = [l EXCEPT !.tasksPlanned = tasksPlanned,
                                                 !.efficiency = efficiency,
                                                 !.failed = @ \/ ~ok]]
          /\ UNCHANGED <<storeVars, timerVars, calcVars>>

\* UdeTasks that gives up when the task query fails
UdeTasksAborts(p) ==
  /\ pc[p] = "ude_tasks"
  /\ \E ok \in BOOLEAN :
       LET l == loc[p]
           tasksPlanned == Cardinality(TasksOn(l.uToday))
           tasksCompleted == l.uStats.tasks_completed + l.additionalTasks
           efficiency == calculateEfficiency(tasksPlanned, tasksCompleted,
                            l.uStats.pomodoro_sessions, l.uStats.focus_time)
       IN IF ok
            THEN /\ pc' = [pc EXCEPT ![p] = "ude_update"]
                 /\ loc' = [loc EXCEPT ![p] = [l EXCEPT !.tasksPlanned = tasksPlanned,
                                                        !.efficiency = efficiency]]
                 /\ UNCHANGED <<storeVars, timerVars, calcVars>>
            ELSE /\ Finish(p, [l EXCEPT !.ude = "fetchError", !.failed = TRUE])
                 /\ UNCHANGED <<storeVars, calcVars>>

\* lines 107-138: the task query (no data when it fails) and the score
UdeTasks(p) ==
  /\ pc[p] = "ude_tasks"
  /\ \E ok \in BOOLEAN :
       LET l == loc[p]
           tasksPlanned == IF ok THEN Cardinality(TasksOn(l.uToday)) ELSE 0
           tasksCompleted == l.uStats.tasks_completed + l.additionalTasks
           efficiency == calculateEfficiency(tasksPlanned, tasksCompleted,
                            l.uStats.pomodoro_sessions, l.uStats.focus_time)
       IN /\ pc' = [pc EXCEPT ![p] = "ude_update"]
          /\ loc' = [loc EXCEPT ![p] = [l EXCEPT !.tasksPlanned = tasksPlanned,
                                                 !.efficiency = efficiency,
                                                 !.failed = @ \/ ~ok]]
          /\ UNCHANGED <<storeVars, timerVars, calcVars>>

\* UdeUpdateData that writes the score only
UdeUpdateDataScoreOnly(row, l) ==
  [row EXCEPT !.efficiency_score = l.efficiency]

\* UdeUpdateData writing a whole row, the columns it does not compute at
\* their defaults
UdeUpdateDataReplacesRow(row, l) ==
  Row(0, 0, l.uStats.tasks_completed + l.additionalTasks, l.efficiency)

\* UdeUpdateData adding the new score to the stored one
UdeUpdateDataAdds(row, l) ==
  IF l.additionalTasks > 0
    THEN [row EXCEPT !.efficiency_score = @ + l.efficiency,
                     !.tasks_completed = l.uStats.tasks_completed + l.additionalTasks]
    ELSE [row EXCEPT !.efficiency_score = @ + l.efficiency]

\* the row .update(updateData).eq('id', stats.id) leaves
UdeUpdateData(row, l) ==
  IF l.additionalTasks > 0
    THEN [row EXCEPT !.efficiency_score = l.efficiency,
                     !.tasks_completed = l.uStats.tasks_completed + l.additionalTasks]
    ELSE [row EXCEPT !.efficiency_score = l.efficiency]

\* UdeUpdate that tries the write a second time when the first fails
UdeUpdateRetries(p) ==
  /\ pc[p] = "ude_update"
  /\ \E ok \in BOOLEAN, again \in BOOLEAN :
       LET l == loc[p]
       IN /\ user_stats' = IF ok \/ again
                             THEN [user_stats EXCEPT ![l.uToday] = UdeUpdateData(@, l)]
                             ELSE user_stats
          /\ Finish(p, [l EXCEPT !.ude = IF ok \/ again THEN "written" ELSE "writeError",
                                 !.udeWrites = @ + (IF ok THEN 1 ELSE 2),
                                 !.failed = @ \/ ~ok])
          /\ UNCHANGED <<tasks, today, authenticated, calcVars>>

\* lines 140-149: the write-back; an error is logged
UdeUpdate(p) ==
  /\ pc[p] = "ude_update"
  /\ \E ok \in BOOLEAN :
       LET l == loc[p]
       IN /\ user_stats' = IF ok
                             THEN [user_stats EXCEPT ![l.uToday] = UdeUpdateData(@, l)]
                             ELSE user_stats
          /\ Finish(p, [l EXCEPT !.ude = IF ok THEN "written" ELSE "writeError",
                                 !.udeWrites = @ + 1,
                                 !.failed = @ \/ ~ok])
          /\ UNCHANGED <<tasks, today, authenticated, calcVars>>

(***************************************************************************)
(* The focus timer (AIFocus)                                                *)
(***************************************************************************)
Idle(p) == pc[p] = "idle"

\* a handler starts: its locals are fresh, `pre` remembers today's row
Begin(op) == [NoLocals EXCEPT !.op = op, !.pre = user_stats[today]]

\* typing into / clearing the task input (shown outside breaks, disabled while running)
SetTask(v) ==
  /\ ~isBreak /\ ~isRunning /\ task # v
  /\ task' = v
  /\ UNCHANGED <<storeVars, procVars, calcVars, timeLeft, isRunning, isBreak,
                 cycleCount, status, focusStrategy, currentSessionId>>

\* lines 54-61
handleStrategyReceived(strategy) ==
  /\ focusStrategy' = strategy
  /\ timeLeft' = strategy.workDuration
  /\ UNCHANGED <<storeVars, procVars, calcVars, isRunning, isBreak, cycleCount,
                 status, task, currentSessionId>>

\* lines 63-74: Start, up to the await of getUser
handleStart(p) ==
  /\ Idle(p) /\ ~isRunning
  /\ IF ~task /\ ~isBreak
       THEN Return(p, [Begin("handleStart") EXCEPT !.toast = "Enter a task"])
       ELSE /\ loc' = [loc EXCEPT ![p] = [Begin("handleStart") EXCEPT
                         !.cIsBreak = isBreak, !.cCycleCount = cycleCount,
                         !.cStrategy = focusStrategy]]
            /\ pc' = [pc EXCEPT ![p] = "hs_getUser"]
  /\ UNCHANGED <<storeVars, timerVars, calcVars>>

HsGetUser(p) ==
  /\ pc[p] = "hs_getUser"
  /\ IF authenticated
       THEN /\ pc' = [pc EXCEPT ![p] = "hs_insert"]
            /\ loc' = loc
       ELSE Return(p, loc[p])
  /\ UNCHANGED <<storeVars, timerVars, calcVars>>

\* lines 76-78
StartDuration(l) ==
  IF l.cIsBreak
    THEN OrElse(l.cStrategy.breakDuration, IF l.cCycleCount = 4 THEN LONG_BREAK ELSE SHORT_BREAK)
    ELSE OrElse(l.cStrategy.workDuration, WORK_DURATION)

\* lines 80-96: the insert into pomodoro_sessions, then the timer runs
HsInsert(p) ==
  /\ pc[p] = "hs_insert"
  /\ \E ok \in BOOLEAN :
       LET l == loc[p]
           row == [duration |-> StartDuration(l),
                   mode |-> IF l.cIsBreak THEN "break" ELSE "work"]
       IN /\ Return(p, [l EXCEPT !.failed = ~ok])
          /\ IF ok
               THEN /\ currentSessionId' = row
                    /\ isRunning' = TRUE
               ELSE UNCHANGED <<currentSessionId, isRunning>>
          /\ UNCHANGED <<user_stats, tasks, today, authenticated, calcVars,
                         timeLeft, isBreak, cycleCount, status, focusStrategy, task>>

\* line 99
handlePause ==
  /\ isRunning
  /\ isRunning' = FALSE
  /\ UNCHANGED <<storeVars, procVars, calcVars, timeLeft, isBreak, cycleCount,
                 status, focusStrategy, task, currentSessionId>>

\* lines 101-107
handleReset ==
  /\ isRunning' = FALSE
  /\ timeLeft' = OrElse(focusStrategy.workDuration, WORK_DURATION)
  /\ task' = FALSE
  /\ isBreak' = FALSE
  /\ status' = "Focus Time"
  /\ UNCHANGED <<storeVars, procVars, calcVars, cycleCount, focusStrategy, currentSessionId>>

\* Tick whose interval keeps firing at zero
TickBelowZero ==
  /\ isRunning
  /\ timeLeft' = timeLeft - 1
  /\ UNCHANGED <<storeVars, procVars, calcVars, isRunning, isBreak, cycleCount,
                 status, focusStrategy, task, currentSessionId>>

\* lines 44-52, first branch: the interval callback
Tick ==
  /\ isRunning /\ timeLeft > 0
  /\ timeLeft' = timeLeft - 1
  /\ UNCHANGED <<storeVars, procVars, calcVars, isRunning, isBreak, cycleCount,
                 status, focusStrategy, task, currentSessionId>>

\* lines 114-117: handleTimerEnd(manual), up to the await of getUser; the
\* closure holds isBreak, timeLeft, cycleCount and focusStrategy of the render
HandleTimerEnd(p, manual) ==
  /\ Idle(p)
  /\ isRunning' = FALSE
  /\ loc' = [loc EXCEPT ![p] = [Begin("handleTimerEnd") EXCEPT
               !.manual = manual, !.cIsBreak = isBreak, !.cTimeLeft = timeLeft,
               !.cCycleCount = cycleCount, !.cStrategy = focusStrategy]]
  /\ pc' = [pc EXCEPT ![p] = "te_getUser"]
  /\ UNCHANGED <<storeVars, calcVars, timeLeft, isBreak, cycleCount, status,
                 focusStrategy, task, currentSessionId>>

\* HandleTimerEnd while the page has work intervals left to count
HandleTimerEndBegin(p, manual) ==
  /\ isBreak \/ cycleCount < MaxCycles
  /\ HandleTimerEnd(p, manual)

\* lines 44-52, second branch: the timer ran down to zero
TimerExpired(p) ==
  /\ isRunning /\ timeLeft = 0
  /\ HandleTimerEndBegin(p, FALSE)

\* lines 109-112: the Complete button
handleCompleteEarly(p) ==
  /\ timeLeft \in CompleteTimes
  /\ HandleTimerEndBegin(p, TRUE)

\* lines 121-122
FocusMinutes(l) ==
  RoundMinutes(IF l.manual THEN WORK_DURATION - l.cTimeLeft ELSE WORK_DURATION)

\* TeGetUser that books a break like a work interval
TeGetUserCountsBreaks(p) ==
  /\ pc[p] = "te_getUser"
  /\ LET l == loc[p]
     IN IF ~authenticated
          THEN /\ Return(p, l)
               /\ UNCHANGED timerVars
        ELSE /\ pc' = [pc EXCEPT ![p] = "te_select"]
             /\ loc' = [loc EXCEPT ![p] = [l EXCEPT !.focusMin = FocusMinutes(l),
                                                    !.hToday = today]]
             /\ UNCHANGED timerVars
  /\ UNCHANGED <<storeVars, calcVars>>

\* lines 117-123: no user returns; a break goes straight to the tail
TeGetUser(p) ==
  /\ pc[p] = "te_getUser"
  /\ LET l == loc[p]
     IN IF ~authenticated
          THEN /\ Return(p, l)
               /\ UNCHANGED timerVars
        ELSE IF l.cIsBreak
          THEN Finish(p, l)
        ELSE /\ pc' = [pc EXCEPT ![p] = "te_select"]
             /\ loc' = [loc EXCEPT ![p] = [l EXCEPT !.focusMin = FocusMinutes(l),
                                                    !.hToday = today]]
             /\ UNCHANGED timerVars
  /\ UNCHANGED <<storeVars, calcVars>>

\* lines 125-130 (and 809-814): today's row, null when the read fails
SelectStats(p, from, to) ==
  /\ pc[p] = from
  /\ \E ok \in BOOLEAN :
       LET l == loc[p]
       IN loc' = [loc EXCEPT ![p] = [l EXCEPT
                    !.stats = IF ok THEN user_stats[l.hToday] ELSE NoRow,
                    !.failed = @ \/ ~ok]]
  /\ pc' = [pc EXCEPT ![p] = to]
  /\ UNCHANGED <<storeVars, timerVars, calcVars>>

TeSelect(p) == SelectStats(p, "te_select", "te_write")

\* the table after update(row).eq('id', stats.id) or insert(row); (user_id,
\* date) holds one row, so an insert onto an existing row is refused
WriteStats(l, ok, updated, inserted) ==
  IF l.stats.exists
    THEN IF ok THEN [user_stats EXCEPT ![l.hToday] = updated] ELSE user_stats
    ELSE IF ok /\ ~user_stats[l.hToday].exists
           THEN [user_stats EXCEPT ![l.hToday] = inserted]
           ELSE user_stats

\* lines 132-151: add the interval to the row, or insert it, then recompute
TeWrite(p) ==
  /\ pc[p] = "te_write"
  /\ \E ok \in BOOLEAN :
       LET l == loc[p]
           cur == user_stats[l.hToday]
       IN /\ user_stats' = WriteStats(l, ok,
                 [cur EXCEPT !.focus_time = l.stats.focus_time + l.focusMin,
                             !.pomodoro_sessions = l.stats.pomodoro_sessions + 1],
                 Row(l.focusMin, 1, 0, 0))
          /\ loc' = [loc EXCEPT ![p] = UdeCall([l EXCEPT !.failed =
                        @ \/ ~ok \/ (~l.stats.exists /\ user_stats[l.hToday].exists)], 0)]
  /\ pc' = [pc EXCEPT ![p] = "ude_select"]
  /\ UNCHANGED <<tasks, today, authenticated, timerVars, calcVars>>

(***************************************************************************)
(* The task calendar (SmartCalendar)                                        *)
(***************************************************************************)
\* CreateFormError that accepts an end equal to the start
CreateFormErrorAllowsEqual(form) ==
  IF ~form.filled THEN "Fill in all required fields"
  ELSE IF form.day = 0 THEN "Invalid date/time"
  ELSE IF form.end_time < form.start_time THEN "End time must be after start time"
  ELSE "none"

\* lines 716-733: the checks of createTask on the dialog
CreateFormError(form) ==
  IF ~form.filled THEN "Fill in all required fields"
  ELSE IF form.day = 0 THEN "Invalid date/time"
  ELSE IF form.end_time <= form.start_time THEN "End time must be after start time"
  ELSE "none"

\* lines 716-736: createTask, up to the await of getUser
createTask(p, form) ==
  /\ Idle(p)
  /\ \E id \in TaskIds : ~tasks[id].exists
  /\ LET err == CreateFormError(form)
         l == [Begin("createTask") EXCEPT !.form = form, !.toast = err]
     IN IF err = "none"
          THEN /\ loc' = [loc EXCEPT ![p] = l]
               /\ pc' = [pc EXCEPT ![p] = "ct_getUser"]
          ELSE Return(p, l)
  /\ UNCHANGED <<storeVars, timerVars, calcVars>>

\* lines 736-747
CtGetUser(p) ==
  /\ pc[p] = "ct_getUser"
  /\ IF authenticated
       THEN /\ pc' = [pc EXCEPT ![p] = "ct_insert"]
            /\ loc' = loc
       ELSE Return(p, [loc[p] EXCEPT !.toast = "Not authenticated"])
  /\ UNCHANGED <<storeVars, timerVars, calcVars>>

\* lines 749-788: the insert; the store names the new row
CtInsert(p) ==
  /\ pc[p] = "ct_insert"
  /\ \E ok \in BOOLEAN :
       LET l == loc[p]
           id == CHOOSE i \in TaskIds : ~tasks[i].exists /\ \A j \in TaskIds : ~tasks[j].exists => i <= j
       IN /\ tasks' = IF ok
                        THEN [tasks EXCEPT ![id] = [exists |-> TRUE, day |-> l.form.day,
                                 start_time |-> l.form.start_time,
                                 end_time |-> l.form.end_time, completed |-> FALSE]]
                        ELSE tasks
          /\ Return(p, [l EXCEPT !.failed = ~ok,
                                  !.toast = IF ok THEN "Task created" ELSE "Create failed"])
  /\ UNCHANGED <<user_stats, today, authenticated, timerVars, calcVars>>

\* lines 795-797: toggleTaskCompletion(taskId, completed) on a task of the
\* view, up to the await of the update
toggleTaskCompletion(p, taskId) ==
  /\ Idle(p)
  /\ tasks[taskId].exists
  /\ tasks[taskId].completed \/ ~user_stats[today].exists
       \/ user_stats[today].tasks_completed + 2 <= MaxCompleted
  /\ loc' = [loc EXCEPT ![p] = [Begin("toggleTaskCompletion") EXCEPT
               !.taskId = taskId, !.completed = tasks[taskId].completed]]
  /\ pc' = [pc EXCEPT ![p] = "tg_update"]
  /\ UNCHANGED <<storeVars, timerVars, calcVars>>

\* lines 797-806 and 838-840: the flag is written; only a completion goes on
TgUpdate(p) ==
  /\ pc[p] = "tg_update"
  /\ \E ok \in BOOLEAN :
       LET l == loc[p]
       IN /\ tasks' = IF ok /\ tasks[l.taskId].exists
                        THEN [tasks EXCEPT ![l.taskId].completed = ~l.completed]
                        ELSE tasks
          /\ IF ~ok
               THEN Return(p, [l EXCEPT !.failed = TRUE, !.toast = "Failed to update task"])
             ELSE IF ~l.completed
               THEN /\ pc' = [pc EXCEPT ![p] = "tg_getUser"]
                    /\ loc' = loc
             ELSE Return(p, [l EXCEPT !.toast = "Task marked as incomplete"])
  /\ UNCHANGED <<user_stats, today, authenticated, timerVars, calcVars>>

\* lines 806-808
TgGetUser(p) ==
  /\ pc[p] = "tg_getUser"
  /\ IF authenticated
       THEN /\ pc' = [pc EXCEPT ![p] = "tg_select"]
            /\ loc' = [loc EXCEPT ![p].hToday = today]
       ELSE Return(p, [loc[p] EXCEPT !.toast = "Task completed!"])
  /\ UNCHANGED <<storeVars, timerVars, calcVars>>

TgSelect(p) == SelectStats(p, "tg_select", "tg_write")

\* lines 816-834: count the completion on the row, or insert the row, then
\* updateDailyEfficiency(supabase, user.id, 1)
\* TgWrite as an atomic increment of the stored count
TgWriteAtomic(p) ==
  /\ pc[p] = "tg_write"
  /\ \E ok \in BOOLEAN :
       LET l == loc[p]
           cur == user_stats[l.hToday]
       IN /\ user_stats' = WriteStats(l, ok,
                 [cur EXCEPT !.tasks_completed = cur.tasks_completed + 1],
                 Row(0, 0, 1, 0))
          /\ loc' = [loc EXCEPT ![p] = UdeCall([l EXCEPT !.failed =
                        @ \/ ~ok \/ (~l.stats.exists /\ user_stats[l.hToday].exists)], 1)]
  /\ pc' = [pc EXCEPT ![p] = "ude_select"]
  /\ UNCHANGED <<tasks, today, authenticated, timerVars, calcVars>>

TgWrite(p) ==
  /\ pc[p] = "tg_write"
  /\ \E ok \in BOOLEAN :
       LET l == loc[p]
           cur == user_stats[l.hToday]
       IN /\ user_stats' = WriteStats(l, ok,
                 [cur EXCEPT !.tasks_completed = l.stats.tasks_completed + 1],
                 Row(0, 0, 1, 0))
          /\ loc' = [loc EXCEPT ![p] = UdeCall([l EXCEPT !.failed =
                        @ \/ ~ok \/ (~l.stats.exists /\ user_stats[l.hToday].exists)], 1)]
  /\ pc' = [pc EXCEPT ![p] = "ude_select"]
  /\ UNCHANGED <<tasks, today, authenticated, timerVars, calcVars>>

\* lines 847-849: deleteTask(taskId), up to the await of the delete
deleteTask(p, taskId) ==
  /\ Idle(p)
  /\ tasks[taskId].exists
  /\ loc' = [loc EXCEPT ![p] = [Begin("deleteTask") EXCEPT !.taskId = taskId]]
  /\ pc' = [pc EXCEPT ![p] = "dl_delete"]
  /\ UNCHANGED <<storeVars, timerVars, calcVars>>

\* DlDelete that recomputes the day's score once the task is gone
DlDeleteRecomputes(p) ==
  /\ pc[p] = "dl_delete"
  /\ \E ok \in BOOLEAN :
       LET l == loc[p]
       IN /\ tasks' = IF ok THEN [tasks EXCEPT ![l.taskId] = NoTask] ELSE tasks
          /\ IF ok
               THEN /\ pc' = [pc EXCEPT ![p] = "ude_select"]
                    /\ loc' = [loc EXCEPT ![p] = UdeCall([l EXCEPT !.toast = "Task deleted"], 0)]
               ELSE Return(p, [l EXCEPT !.failed = TRUE, !.toast = "Failed to delete task"])
  /\ UNCHANGED <<user_stats, today, authenticated, timerVars, calcVars>>

\* lines 849-856
DlDelete(p) ==
  /\ pc[p] = "dl_delete"
  /\ \E ok \in BOOLEAN :
       LET l == loc[p]
       IN /\ tasks' = IF ok THEN [tasks EXCEPT ![l.taskId] = NoTask] ELSE tasks
          /\ Return(p, [l EXCEPT !.failed = ~ok,
                        !.toast = IF ok THEN "Task deleted" ELSE "Failed to delete task"])
  /\ UNCHANGED <<user_stats, today, authenticated, timerVars, calcVars>>

\* lines 876-890: the checks of updateTask on the dialog; a date that is not
\* one passes the comparison and makes toISOString throw inside the try
UpdateFormError(form) ==
  IF ~form.filled THEN "Fill in all required fields"
  ELSE IF form.day # 0 /\ form.end_time <= form.start_time THEN "End time must be after start time"
  ELSE IF form.day = 0 THEN "Unexpected error updating task"
  ELSE "none"

\* lines 876-902: updateTask on the selected task, up to the await of the update
updateTask(p, taskId, form) ==
  /\ Idle(p)
  /\ tasks[taskId].exists
  /\ LET err == UpdateFormError(form)
         l == [Begin("updateTask") EXCEPT !.taskId = taskId, !.form = form, !.toast = err]
     IN IF err = "none"
          THEN /\ loc' = [loc EXCEPT ![p] = l]
               /\ pc' = [pc EXCEPT ![p] = "ut_update"]
          ELSE Return(p, l)
  /\ UNCHANGED <<storeVars, timerVars, calcVars>>

\* lines 892-913
UtUpdate(p) ==
  /\ pc[p] = "ut_update"
  /\ \E ok \in BOOLEAN :
       LET l == loc[p]
       IN /\ tasks' = IF ok /\ tasks[l.taskId].exists
                        THEN [tasks EXCEPT ![l.taskId] = [@ EXCEPT !.day = l.form.day,
                                 !.start_time = l.form.start_time, !.end_time = l.form.end_time]]
                        ELSE tasks
          /\ Return(p, [l EXCEPT !.failed = ~ok,
                        !.toast = IF ok THEN "Task updated" ELSE "Failed to update task"])
  /\ UNCHANGED <<user_stats, today, authenticated, timerVars, calcVars>>

(***************************************************************************)
(* Specifications                                                           *)
(***************************************************************************)
InitTimer ==
  /\ timeLeft = WORK_DURATION
  /\ isRunning = FALSE
  /\ isBreak = FALSE
  /\ cycleCount = 0
  /\ status = "Work"
  /\ focusStrategy = NoStrategy
  /\ task = FALSE
  /\ currentSessionId = NoSession

InitProcs ==
  /\ pc = [p \in Procs |-> "idle"]
  /\ loc = [p \in Procs |-> NoLocals]

\* the row one work interval that ran down to zero leaves (SpecTimer reaches
\* it: handleStart, the ticks of 25 minutes, TimerExpired and its writes)
RowAfterOneInterval == Row(25, 1, 0, calculateEfficiency(0, 0, 1, 25))

\* A page load: the timer store and the handlers are fresh; the account has no
\* tasks, and its row of today is absent or the one an interval run in another
\* browser left.
Init ==
  /\ user_stats \in {[d \in Dates |-> IF d = 1 THEN r ELSE NoRow] : r \in {NoRow, RowAfterOneInterval}}
  /\ tasks = [id \in TaskIds |-> NoTask]
  /\ today = 1
  /\ authenticated \in BOOLEAN
  /\ InitTimer
  /\ InitProcs
  /\ params = NoParams
  /\ result = 0 - 1
  /\ analytics = NoAnalytics
  /\ streak = 0 - 1

\* the clock passes midnight (UTC): new Date().toISOString().split('T')[0]
\* yields the next date from now on, in the handlers (lines 123, 808 of the
\* pages) and in the updater (line 87 of lib/efficiency)
Midnight ==
  /\ today < MaxDay
  /\ today' = today + 1
  /\ UNCHANGED <<user_stats, tasks, authenticated, timerVars, procVars, calcVars>>

\* the calendar, the Complete button and the updater
Next ==
  \E p \in Procs :
    \/ \E form \in Forms : createTask(p, form)
    \/ CtGetUser(p)
    \/ CtInsert(p)
    \/ \E id \in TaskIds : toggleTaskCompletion(p, id)
    \/ TgUpdate(p)
    \/ TgGetUser(p)
    \/ TgSelect(p)
    \/ TgWrite(p)
    \/ \E id \in TaskIds : deleteTask(p, id)
    \/ DlDelete(p)
    \/ \E id \in TaskIds, form \in Forms : updateTask(p, id, form)
    \/ UtUpdate(p)
    \/ handleCompleteEarly(p)
    \/ TeGetUser(p)
    \/ TeSelect(p)
    \/ TeWrite(p)
    \/ UdeSelect(p)
    \/ UdeTasks(p)
    \/ UdeUpdate(p)

Spec == Init /\ [][Next]_vars

\* the two call sites of the updater with the clock running: midnight may
\* pass between any two steps, also while a handler awaits a storage call
NextMidnight ==
  \/ Midnight
  \/ \E p \in Procs :
       \/ \E form \in Forms : createTask(p, form)
       \/ CtGetUser(p)
       \/ CtInsert(p)
       \/ \E id \in TaskIds : toggleTaskCompletion(p, id)
       \/ TgUpdate(p)
       \/ TgGetUser(p)
       \/ TgSelect(p)
       \/ TgWrite(p)
       \/ handleCompleteEarly(p)
       \/ TeGetUser(p)
       \/ TeSelect(p)
       \/ TeWrite(p)
       \/ UdeSelect(p)
       \/ UdeTasks(p)
       \/ UdeUpdate(p)

SpecMidnight == Init /\ [][NextMidnight]_vars

\* the timer on its own: the account has no tasks and no row of today
InitTimerOnly ==
  /\ user_stats = [d \in Dates |-> NoRow]
  /\ tasks = [id \in TaskIds |-> NoTask]
  /\ today = 1
  /\ authenticated \in BOOLEAN
  /\ InitTimer
  /\ InitProcs
  /\ params = NoParams
  /\ result = 0 - 1
  /\ analytics = NoAnalytics
  /\ streak = 0 - 1

NextTimer ==
  \E p \in Procs :
    \/ \E v \in BOOLEAN : SetTask(v)
    \/ \E strategy \in Strategies : handleStrategyReceived(strategy)
    \/ handleStart(p)
    \/ HsGetUser(p)
    \/ HsInsert(p)
    \/ handlePause
    \/ handleReset
    \/ Tick
    \/ TimerExpired(p)
    \/ handleCompleteEarly(p)
    \/ TeGetUser(p)
    \/ TeSelect(p)
    \/ TeWrite(p)
    \/ UdeSelect(p)
    \/ UdeTasks(p)
    \/ UdeUpdate(p)

SpecTimer == InitTimerOnly /\ [][NextTimer]_vars

\* the timer through its rounds of work and break, without a strategy: the
\* interval runs down on its own, or Complete is pressed while it stands
TimerExpiredInRound(p) ==
  /\ isRunning /\ timeLeft = 0
  /\ isBreak \/ cycleCount < MaxRounds
  /\ HandleTimerEnd(p, FALSE)

CompleteStanding(p) ==
  /\ ~isRunning /\ timeLeft \in CompleteTimes
  /\ isBreak \/ cycleCount < MaxRounds
  /\ HandleTimerEnd(p, TRUE)

NextRounds ==
  \E p \in Procs :
    \/ \E v \in BOOLEAN : SetTask(v)
    \/ handleStart(p)
    \/ HsGetUser(p)
    \/ HsInsert(p)
    \/ Tick
    \/ TimerExpiredInRound(p)
    \/ CompleteStanding(p)
    \/ TeGetUser(p)
    \/ TeSelect(p)
    \/ TeWrite(p)
    \/ UdeSelect(p)
    \/ UdeTasks(p)
    \/ UdeUpdate(p)

SpecRounds == InitTimerOnly /\ [][NextRounds]_vars

\* updateDailyEfficiency on its own, called again and again on an account
\* whose tasks stay as they are
updateDailyEfficiency(p, additionalTasks) ==
  /\ Idle(p)
  /\ user_stats[today].tasks_completed + additionalTasks <= MaxCompleted + MaxDelta
  /\ loc' = [loc EXCEPT ![p] = UdeCall([Begin("updateDailyEfficiency") EXCEPT
               !.prev = [additionalTasks |-> loc[p].additionalTasks, ude |-> loc[p].ude,
                         failed |-> loc[p].failed]],
               additionalTasks)]
  /\ pc' = [pc EXCEPT ![p] = "ude_select"]
  /\ UNCHANGED <<storeVars, timerVars, calcVars>>

\* rows of today the handlers leave: k intervals run to their end, t
\* completions counted, the score current for an account without tasks or
\* never written
StatsRows ==
  {Row(25 * k, k, t, e) : k \in 0..(MaxCycles + 1), t \in 0..MaxCompleted, e \in {0}}
  \cup {Row(25 * k, k, t, calculateEfficiency(0, t, k, 25 * k)) :
           k \in 0..(MaxCycles + 1), t \in 0..MaxCompleted}

TaskRows ==
  {NoTask} \cup {[exists |-> TRUE, day |-> d, start_time |-> 0, end_time |-> 1, completed |-> c] :
                   d \in Dates, c \in BOOLEAN}

InitUpdater ==
  /\ user_stats \in {[d \in Dates |-> IF d = 1 THEN r ELSE NoRow] : r \in {NoRow} \cup StatsRows}
  /\ tasks \in [TaskIds -> TaskRows]
  /\ today = 1
  /\ authenticated = TRUE
  /\ InitTimer
  /\ InitProcs
  /\ params = NoParams
  /\ result = 0 - 1
  /\ analytics = NoAnalytics
  /\ streak = 0 - 1

NextUpdater ==
  \E p \in Procs :
    \/ \E additionalTasks \in 0..MaxDelta : updateDailyEfficiency(p, additionalTasks)
    \/ UdeSelect(p)
    \/ UdeTasks(p)
    \/ UdeUpdate(p)

SpecUpdater == InitUpdater /\ [][NextUpdater]_vars

\* calculateEfficiency on its own: one call per input
FocusGrid == {f \in 0..MaxFocus : f % 60 = 0}

CalcInputs ==
  [tasksPlanned : 0..MaxTasks, tasksCompleted : 0..MaxTasks,
   pomodorosSessions : 0..MaxPomodoros, focusTime : FocusGrid]
  \cup [tasksPlanned : 0..1, tasksCompleted : 0..1,
        pomodorosSessions : {0, 3, 12}, focusTime : 0..MaxFocus]
  \cup [tasksPlanned : {0, 4}, tasksCompleted : {4, 5},
        pomodorosSessions : {5, 6, 10, 11}, focusTime : (110..130) \cup (355..375)]

InitCalc ==
  /\ user_stats = [d \in Dates |-> NoRow]
  /\ tasks = [id \in TaskIds |-> NoTask]
  /\ today = 1
  /\ authenticated = TRUE
  /\ InitTimer
  /\ InitProcs
  /\ params \in CalcInputs
  /\ result = 0 - 1
  /\ analytics = NoAnalytics
  /\ streak = 0 - 1

Calculate ==
  /\ result = 0 - 1
  /\ result' = calculateEfficiency(params.tasksPlanned, params.tasksCompleted,
                                   params.pomodorosSessions, params.focusTime)
  /\ UNCHANGED <<storeVars, timerVars, procVars, params, analytics, streak>>

NextCalc == Calculate

SpecCalc == InitCalc /\ [][NextCalc]_vars

(***************************************************************************)
(* The streak of the Analytics page (fetchAnalytics, lines 205-260)         *)
(***************************************************************************)
\* instants are counted in hours since 00:00 UTC of calendar day 0; line 226
\* divides a difference of instants by the length of a day
HoursPerDay == 24

\* hours the browser's zone is ahead of UTC: New York, UTC, Tokyo
Offsets == {0 - 5, 0, 9}

\* new Date('YYYY-MM-DD'): a date-only string is read as 00:00 UTC of that day
ParseDate(date) == date * HoursPerDay

\* d.setHours(0, 0, 0, 0): 00:00 of the local calendar day the instant lies in
SetHoursZero(t, offset) == ((t + offset) \div HoursPerDay) * HoursPerDay - offset

\* lines 205-209: the rows of the user, latest date first
RECURSIVE AllTimeStatsFrom(_, _)
AllTimeStatsFrom(rows, d) ==
  IF d = 0 THEN <<>>
  ELSE (IF rows[d].exists
          THEN <<[date |-> d, pomodoro_sessions |-> rows[d].pomodoro_sessions,
                  tasks_completed |-> rows[d].tasks_completed,
                  focus_time |-> rows[d].focus_time]>>
          ELSE <<>>) \o AllTimeStatsFrom(rows, d - 1)

AllTimeStats(rows) == AllTimeStatsFrom(rows, Len(rows))

\* lines 233-251: the loop over the rows from index i on
RECURSIVE StreakLoop(_, _, _, _, _)
StreakLoop(allTimeStats, i, expectedDate, currentStreak, offset) ==
  IF i > Len(allTimeStats) THEN currentStreak
  ELSE LET stat == allTimeStats[i]
           statDate == SetHoursZero(ParseDate(stat.date), offset)
       IN IF statDate = expectedDate
            THEN IF stat.pomodoro_sessions > 0 \/ stat.tasks_completed > 0 \/ stat.focus_time > 0
                   THEN StreakLoop(allTimeStats, i + 1, expectedDate - HoursPerDay,
                                   currentStreak + 1, offset)
                   ELSE currentStreak
            ELSE currentStreak

\* lines 217-253
CurrentStreak(allTimeStats, now, offset) ==
  IF Len(allTimeStats) = 0 THEN 0
  ELSE LET todayMidnight == SetHoursZero(now, offset)
           mostRecentDate == SetHoursZero(ParseDate(allTimeStats[1].date), offset)
           daysSinceLastActivity == (todayMidnight - mostRecentDate) \div HoursPerDay
       IN IF daysSinceLastActivity <= 1
            THEN StreakLoop(allTimeStats, 1, mostRecentDate, 0, offset)
            ELSE 0

\* the part of fetchAnalytics that sets stats.streak; a query that fails
\* yields no data and the streak stays 0
fetchAnalytics ==
  /\ analytics.data = "pending"
  /\ \E ok \in BOOLEAN :
       /\ analytics' = [analytics EXCEPT !.data = IF ok THEN "rows" ELSE "null"]
       /\ streak' = IF ok THEN CurrentStreak(AllTimeStats(analytics.rows),
                                              analytics.now, analytics.offset)
                          ELSE 0
  /\ UNCHANGED <<storeVars, timerVars, procVars, params, result>>

\* no row, a row without activity written by another client, and the rows
\* the two handlers leave (a work interval, a completed task)
StreakRows == {NoRow, Row(0, 0, 0, 0), RowAfterOneInterval, Row(0, 0, 1, 7)}

\* the page is opened at 02:00, 12:00 or 22:00 UTC, on the day of the latest
\* possible row or up to two days later
InitAnalytics ==
  /\ user_stats = [d \in Dates |-> NoRow]
  /\ tasks = [id \in TaskIds |-> NoTask]
  /\ today = 1
  /\ authenticated = TRUE
  /\ InitTimer
  /\ InitProcs
  /\ params = NoParams
  /\ result = 0 - 1
  /\ analytics \in [rows : [1..MaxStreakDays -> StreakRows],
                    now : {d * HoursPerDay + h : d \in MaxStreakDays..(MaxStreakDays + 2),
                                                 h \in {2, 12, 22}},
                    offset : Offsets,
                    data : {"pending"}]
  /\ streak = 0 - 1

NextAnalytics == fetchAnalytics

SpecAnalytics == InitAnalytics /\ [][NextAnalytics]_vars

\* two browser tabs of one user on the calendar page
Tabs == {"tab1", "tab2"}

\* two tasks of today, not completed, as two createTask calls leave them
TwoOpenTasks == [id \in TaskIds |->
                   IF id <= 2 THEN [exists |-> TRUE, day |-> 1, start_time |-> 0,
                                    end_time |-> 1, completed |-> FALSE]
                              ELSE NoTask]

\* both tabs have loaded the calendar; today's row is the one a work interval
\* left
InitRace ==
  /\ user_stats = [d \in Dates |-> IF d = 1 THEN RowAfterOneInterval ELSE NoRow]
  /\ tasks = TwoOpenTasks
  /\ today = 1
  /\ authenticated = TRUE
  /\ InitTimer
  /\ pc = [p \in Tabs |-> "idle"]
  /\ loc = [p \in Tabs |-> NoLocals]
  /\ params = NoParams
  /\ result = 0 - 1
  /\ analytics = NoAnalytics
  /\ streak = 0 - 1

\* the checkbox of a task not yet completed is ticked
TickOpenTask(p, id) ==
  /\ ~tasks[id].completed
  /\ toggleTaskCompletion(p, id)

\* the handlers of the two tabs interleave at their awaits; the boxes ticked
\* are those of tasks not yet completed
NextRace ==
  \E p \in Tabs :
    \/ \E id \in TaskIds : TickOpenTask(p, id)
    \/ TgUpdate(p)
    \/ TgGetUser(p)
    \/ TgSelect(p)
    \/ TgWrite(p)
    \/ UdeSelect(p)
    \/ UdeTasks(p)
    \/ UdeUpdate(p)

SpecRace == InitRace /\ [][NextRace]_vars

(***************************************************************************)
(* Properties                                                               *)
(***************************************************************************)
Called == result # 0 - 1

\* C1: for all non-negative integer inputs calculateEfficiency returns an
\* integer between 0 and 100.
EfficiencyInRange == Called => result \in 0..100

\* a call with every component at work that returned a score strictly inside
\* the range
EfficiencyInRangeReached ==
  /\ Called /\ result \in 1..99
  /\ params.tasksCompleted > params.tasksPlanned /\ params.tasksPlanned > 0
  /\ params.pomodorosSessions > 10 /\ params.focusTime > 360

\* C2: with tasksCompleted, pomodorosSessions and focusTime all 0 the result
\* is 0, whatever tasksPlanned is.
NoActivityScoresZero ==
  (Called /\ params.tasksCompleted = 0 /\ params.pomodorosSessions = 0 /\ params.focusTime = 0)
    => result = 0

\* a day with tasks planned and no activity at all was scored
NoActivityScoresZeroReached ==
  /\ Called /\ result = 0
  /\ params.tasksPlanned > 0
  /\ params.tasksCompleted = 0 /\ params.pomodorosSessions = 0 /\ params.focusTime = 0

AllIdle == \A p \in Procs : pc[p] = "idle"

\* the step in which the handler of p returns
Returns(p) == pc[p] # "idle" /\ pc'[p] = "idle"

\* the updater came back to its caller and the caller went on: handleTimerEnd
\* (which calls it after a work interval) ran its tail, toggleTaskCompletion
\* reported the completion
CallerWentOn(p) ==
  /\ pc'[p] = "idle"
  /\ loc[p].op = "handleTimerEnd" => (isBreak' /\ cycleCount' = loc[p].cCycleCount + 1)
  /\ loc[p].op = "toggleTaskCompletion" => loc'[p].toast = "Task completed!"

\* C3: one toggle of a task from incomplete to complete, every storage call
\* succeeding, leaves today's tasks_completed exactly 1 above what it was
\* before the toggle (exactly 1 when there was no row).
ToggleCountsOnce ==
  [][\A p \in Procs :
       (/\ Returns(p)
        /\ loc[p].op = "toggleTaskCompletion" /\ ~loc[p].completed
        /\ authenticated /\ ~loc'[p].failed /\ loc'[p].ude = "written")
       => user_stats'[today].tasks_completed = loc[p].pre.tasks_completed + 1]_vars

\* C4: whenever no handler is in progress, today's efficiency_score is
\* calculateEfficiency of today's planned tasks and the row's three counts.
ScoreIsCurrent ==
  (AllIdle /\ user_stats[today].exists)
    => user_stats[today].efficiency_score =
         calculateEfficiency(Cardinality(TasksOn(today)),
                             user_stats[today].tasks_completed,
                             user_stats[today].pomodoro_sessions,
                             user_stats[today].focus_time)

\* C5: focus_time of every user_stats row is a non-negative integer.
FocusTimeNonNegative ==
  \A d \in Dates : user_stats[d].exists => user_stats[d].focus_time \in Nat

\* the second of two completed updater calls with the same argument, no
\* storage call of either failing
SecondCall(p) ==
  /\ Returns(p)
  /\ loc[p].op = "updateDailyEfficiency"
  /\ loc'[p].ude = "written" /\ ~loc'[p].failed
  /\ loc[p].prev = [additionalTasks |-> loc[p].additionalTasks, ude |-> "written",
                    failed |-> FALSE]

\* C6 as claimed: a second updateDailyEfficiency with the same arguments
\* leaves user_stats as the first left it, whatever additionalTasks is.
UpdaterIdempotent ==
  [][\A p \in Procs :
       SecondCall(p) => user_stats' = [user_stats EXCEPT ![today] = loc[p].pre]]_vars

\* C6 amended: a second updateDailyEfficiency with additionalTasks = 0 leaves
\* user_stats as the first left it.
UpdaterIdempotentWithoutDelta ==
  [][\A p \in Procs :
       (SecondCall(p) /\ loc[p].additionalTasks = 0)
       => user_stats' = [user_stats EXCEPT ![today] = loc[p].pre]]_vars

\* two calls with additionalTasks = 0 were made one after the other on a row
\* with completions, planned tasks and a score
UpdaterIdempotentWithoutDeltaReached ==
  \E p \in Procs :
    /\ pc[p] = "idle" /\ loc[p].op = "updateDailyEfficiency"
    /\ loc[p].additionalTasks = 0 /\ loc[p].ude = "written" /\ ~loc[p].failed
    /\ loc[p].prev = [additionalTasks |-> 0, ude |-> "written", failed |-> FALSE]
    /\ user_stats[today].tasks_completed > 0 /\ TasksOn(today) # {}
    /\ user_stats[today].efficiency_score > 0

\* C7: when the read of today's row fails, updateDailyEfficiency writes
\* nothing, leaves every stored record as it was and returns to its caller,
\* which goes on.
FetchErrorAborts ==
  [][\A p \in Procs :
       (pc[p] = "ude_select" /\ loc'[p].ude = "fetchError")
       => (/\ user_stats' = user_stats /\ tasks' = tasks
           /\ loc'[p].udeWrites = 0
           /\ CallerWentOn(p))]_vars

\* the read failed in an updater call made by a task completion
FetchErrorAbortsReached ==
  \E p \in Procs :
    /\ pc[p] = "idle" /\ loc[p].ude = "fetchError"
    /\ loc[p].op = "toggleTaskCompletion" /\ user_stats[today].exists

\* C8: when today has no row, updateDailyEfficiency creates none, writes
\* nothing and returns to its caller, which goes on.
MissingRowAborts ==
  [][\A p \in Procs :
       (pc[p] = "ude_select" /\ pc'[p] # "ude_select" /\ ~user_stats[loc[p].uToday].exists)
       => (/\ user_stats' = user_stats /\ tasks' = tasks
           /\ loc'[p].udeWrites = 0
           /\ CallerWentOn(p))]_vars

\* the updater found no row of today and returned
MissingRowAbortsReached ==
  \E p \in Procs :
    /\ pc[p] = "idle" /\ loc[p].ude = "noStats" /\ ~user_stats[today].exists

\* C9: the write-back is tried once; when it fails the updater returns to its
\* caller, which goes on, and user_stats keeps the score and the count it had.
WriteErrorNotRetried ==
  [][\A p \in Procs :
       (pc[p] = "ude_update" /\ pc'[p] # "ude_update")
       => (/\ loc'[p].udeWrites = 1
           /\ CallerWentOn(p)
           /\ loc'[p].ude = "writeError" => user_stats' = user_stats)]_vars

\* the write-back of a task completion failed and the handler returned
WriteErrorNotRetriedReached ==
  \E p \in Procs :
    /\ pc[p] = "idle" /\ loc[p].ude = "writeError" /\ loc[p].udeWrites = 1
    /\ loc[p].op = "toggleTaskCompletion"

\* C10: with today's row there and no storage call failing, the score written
\* is calculateEfficiency of the number of today's tasks (completed or not),
\* the stored tasks_completed plus additionalTasks, and the stored
\* pomodoro_sessions and focus_time.
WrittenScore ==
  [][\A p \in Procs :
       (pc[p] = "ude_update" /\ loc'[p].ude = "written" /\ ~loc'[p].failed)
       => LET d == loc[p].uToday
              row == user_stats[d]
          IN user_stats'[d].efficiency_score =
               calculateEfficiency(Cardinality(TasksOn(d)),
                                   row.tasks_completed + loc[p].additionalTasks,
                                   row.pomodoro_sessions, row.focus_time)]_vars

\* a completion was scored against planned tasks, one of them completed, on a
\* row that also holds a work interval
WrittenScoreReached ==
  \E p \in Procs :
    /\ pc[p] = "idle" /\ loc[p].ude = "written" /\ ~loc[p].failed
    /\ loc[p].op = "toggleTaskCompletion"
    /\ \E id \in TasksOn(today) : tasks[id].completed
    /\ user_stats[today].pomodoro_sessions > 0 /\ user_stats[today].focus_time > 0


\* C11: a successful write of updateDailyEfficiency is one write; with
\* additionalTasks = 0 it changes efficiency_score of today's row only, with
\* additionalTasks > 0 also tasks_completed, to stored + additionalTasks;
\* focus_time and pomodoro_sessions of the row, every other row and the tasks
\* stay as they were.
WriteFrame ==
  [][\A p \in Procs :
       (pc[p] = "ude_update" /\ loc'[p].ude = "written")
       => LET d == loc[p].uToday
              old == user_stats[d]
              new == user_stats'[d]
          IN /\ loc'[p].udeWrites = 1
             /\ \A e \in Dates \ {d} : user_stats'[e] = user_stats[e]
             /\ tasks' = tasks
             /\ new = [old EXCEPT !.efficiency_score = new.efficiency_score,
                                  !.tasks_completed = old.tasks_completed + loc[p].additionalTasks]
             /\ loc[p].additionalTasks = 0 => new.tasks_completed = old.tasks_completed]_vars

\* an interval's end (additionalTasks = 0) was scored on a row that holds
\* completions and focus minutes, and the score changed
WriteFrameReached ==
  \E p \in Procs :
    /\ pc[p] = "idle" /\ loc[p].op = "handleTimerEnd"
    /\ loc[p].ude = "written" /\ loc[p].additionalTasks = 0
    /\ user_stats[today].tasks_completed > 0 /\ user_stats[today].focus_time > 0
    /\ user_stats[today].pomodoro_sessions > 0
    /\ user_stats[today].efficiency_score > 35


\* the fraction num / den (num >= 0, den > 0) rounded to the nearest integer,
\* a half rounded up
RoundHalfUp(num, den) == (2 * num + den) \div (2 * den)

\* a call with only the named inputs possibly above 0
OnlyTasks == Called /\ params.pomodorosSessions = 0 /\ params.focusTime = 0
OnlyPomodoros == Called /\ params.tasksCompleted = 0 /\ params.focusTime = 0
OnlyFocus == Called /\ params.tasksCompleted = 0 /\ params.pomodorosSessions = 0

\* C12: with no pomodoros and no focus time, planned and completed tasks
\* above 0 score round(0.35 * min(100, 100 * tasksCompleted / tasksPlanned)),
\* which is 35 whenever tasksCompleted >= tasksPlanned.
PlannedTasksScore ==
  (OnlyTasks /\ params.tasksPlanned > 0 /\ params.tasksCompleted > 0)
    => /\ result = RoundHalfUp(35 * Min(params.tasksPlanned, params.tasksCompleted),
                               params.tasksPlanned)
       /\ params.tasksCompleted >= params.tasksPlanned => result = 35

\* C13: with nothing planned, no pomodoros and no focus time, tasksCompleted
\* above 0 scores round(0.35 * min(100, 20 * tasksCompleted)): 7, 14, 21, 28
\* for 1..4 tasks and 35 for 5 or more.
UnplannedTasksScore ==
  (OnlyTasks /\ params.tasksPlanned = 0 /\ params.tasksCompleted > 0)
    => /\ result = RoundHalfUp(35 * Min(100, 20 * params.tasksCompleted), 100)
       /\ result = (IF params.tasksCompleted >= 5 THEN 35 ELSE 7 * params.tasksCompleted)

\* two unplanned tasks were scored 14
UnplannedTasksScoreReached ==
  /\ OnlyTasks /\ params.tasksPlanned = 0 /\ params.tasksCompleted = 2 /\ result = 14


\* 6 times the pomodoro sub-score and 120 times the focus sub-score of the
\* specification, as integers
PomodoroSubScore6(p) ==
  IF p < 6 THEN 100 * p ELSE IF p <= 10 THEN 600 ELSE 6 * Max(70, 100 - 5 * (p - 10))
FocusSubScore120(f) ==
  IF f < 120 THEN 100 * f ELSE IF f <= 360 THEN 12000 ELSE Max(9600, 12000 - 6 * (f - 360))

\* C14: with no completed task and no focus time, p > 0 pomodoros score
\* round(0.35 * s), s = 100 * p / 6 below 6, 100 in 6..10 and
\* max(70, 100 - 5 * (p - 10)) above 10; 15 pomodoros score 26.
PomodorosScore ==
  (OnlyPomodoros /\ params.pomodorosSessions > 0)
    => /\ result = RoundHalfUp(35 * PomodoroSubScore6(params.pomodorosSessions), 600)
       /\ params.pomodorosSessions = 15 => result = 26

\* C15: with no completed task and no pomodoro, f > 0 focus minutes score
\* round(0.30 * s), s = 100 * f / 120 below 120, 100 in 120..360 and
\* max(80, 100 - 3 * (f - 360) / 60) above 360.
FocusTimeScore ==
  (OnlyFocus /\ params.focusTime > 0)
    => result = RoundHalfUp(30 * FocusSubScore120(params.focusTime), 12000)

\* C16: with no completed task and no focus time, the score strictly rises
\* from 3 pomodoros to 6, is the same from 6 to 10, strictly falls from 10 to
\* 14, and above 10 is at least round(0.35 * 70).
PomodoroMonotone ==
  OnlyPomodoros
    => LET p == params.pomodorosSessions
           next == calculateEfficiency(params.tasksPlanned, 0, p + 1, 0)
       IN /\ p \in 3..5 => result < next
          /\ p \in 6..9 => result = next
          /\ p \in 10..13 => result > next
          /\ p > 10 => result >= RoundHalfUp(35 * 70, 100)

\* thirteen pomodoros were scored, below twelve and above fourteen
PomodoroMonotoneReached ==
  /\ OnlyPomodoros /\ params.pomodorosSessions = 13 /\ result = 30


\* all three components of the specification at full score
FullScore(q) ==
  /\ \/ q.tasksCompleted >= q.tasksPlanned /\ q.tasksPlanned > 0
     \/ q.tasksPlanned = 0 /\ q.tasksCompleted >= 5
  /\ q.pomodorosSessions \in 6..10
  /\ q.focusTime \in 120..360

\* 12000 * tasksPlanned (12000 when nothing is planned) times the weighted
\* total of the specification: 0.35 task + 0.35 pomodoro + 0.30 focus
ExactTotalScaled(q) ==
  LET tp == Max(q.tasksPlanned, 1)
      taskPart == IF q.tasksCompleted = 0 THEN 0
                  ELSE IF q.tasksPlanned > 0 THEN 100 * Min(q.tasksPlanned, q.tasksCompleted)
                  ELSE tp * Min(100, 20 * q.tasksCompleted)
      pomPart == IF q.pomodorosSessions = 0 THEN 0 ELSE PomodoroSubScore6(q.pomodorosSessions)
      focPart == IF q.focusTime = 0 THEN 0 ELSE FocusSubScore120(q.focusTime)
  IN 35 * 120 * taskPart + 35 * 20 * tp * pomPart + 30 * tp * focPart

\* C17: calculateEfficiency returns 100 whenever the three components are at
\* full score together, and returns 100 only for inputs whose exact weighted
\* total rounds to 100 (is at least 99.5).
FullScoreIsHundred ==
  Called => /\ FullScore(params) => result = 100
            /\ result = 100 =>
                 2 * ExactTotalScaled(params) >= 199 * 12000 * Max(params.tasksPlanned, 1)

\* 100 was returned for the full score with more tasks completed than planned
FullScoreIsHundredReached ==
  /\ Called /\ result = 100 /\ FullScore(params)
  /\ params.tasksCompleted > params.tasksPlanned /\ params.tasksPlanned > 0

\* C18: the sum accumulated before the clamp lies in [0, 100], so the clamp
\* returns it unchanged.
SumWithinRange ==
  Called =>
    LET efficiency == WeightedSum(params.tasksPlanned, params.tasksCompleted,
                                  params.pomodorosSessions, params.focusTime)
    IN /\ FCmp(efficiency, FInt(0)) >= 0
       /\ FCmp(efficiency, FInt(100)) <= 0
       /\ FCmp(FMin(FInt(100), FMax(FInt(0), efficiency)), efficiency) = 0

\* a call with overcompleted tasks and the other components at full score,
\* where the sum is at its maximum
SumWithinRangeReached ==
  /\ Called /\ result = 100
  /\ params.tasksCompleted > params.tasksPlanned /\ params.tasksPlanned > 0
  /\ params.pomodorosSessions = 10 /\ params.focusTime = 360


\* the handler p is in (or has last run) changes tasks without completing one
TaskOnlyHandler(l) ==
  \/ l.op \in {"createTask", "updateTask", "deleteTask"}
  \/ l.op = "toggleTaskCompletion" /\ l.completed

\* C19: creating, editing and deleting a task and toggling one from complete
\* to incomplete leave every user_stats row as it was and never enter
\* updateDailyEfficiency.
TaskChangesLeaveStats ==
  [][\A p \in Procs :
       ((pc'[p] # pc[p] \/ loc'[p] # loc[p]) /\ TaskOnlyHandler(loc'[p]))
       => /\ user_stats' = user_stats
          /\ pc'[p] \notin {"ude_select", "ude_tasks", "ude_update"}
          /\ loc'[p].ude = "none" /\ loc'[p].udeWrites = 0]_vars

\* a completed task was toggled back to incomplete while today's row counts
\* completions
TaskChangesLeaveStatsReached ==
  \E p \in Procs :
    /\ pc[p] = "idle" /\ loc[p].op = "toggleTaskCompletion" /\ loc[p].completed
    /\ loc[p].toast = "Task marked as incomplete"
    /\ user_stats[today].tasks_completed > 0
    /\ \A id \in TaskIds : ~tasks[id].completed


\* C20: when updateDailyEfficiency is entered from handleTimerEnd or
\* toggleTaskCompletion and no storage call of the handler has failed, the
\* row of the date the updater reads exists, so the updater does not take
\* its missing-row return.
RowExistsBeforeUpdater ==
  \A p \in Procs :
    (pc[p] = "ude_select" /\ ~loc[p].failed
       /\ loc[p].op \in {"handleTimerEnd", "toggleTaskCompletion"})
    => user_stats[loc[p].uToday].exists


\* C21: the writes to today's row are last-write-wins: the count written by
\* toggleTaskCompletion is the one this tab read plus 1, and the updater
\* writes its score and the count it read plus additionalTasks, whatever
\* another tab stored in between.
LastWriteWins ==
  [][\A p \in Tabs :
       /\ (pc[p] = "tg_write" /\ pc'[p] # "tg_write" /\ loc[p].stats.exists
             /\ user_stats' # user_stats)
          => user_stats'[loc[p].hToday] =
               [user_stats[loc[p].hToday] EXCEPT
                  !.tasks_completed = loc[p].stats.tasks_completed + 1]
       /\ (pc[p] = "ude_update" /\ loc'[p].ude = "written")
          => user_stats'[loc[p].uToday] =
               [user_stats[loc[p].uToday] EXCEPT
                  !.efficiency_score = loc[p].efficiency,
                  !.tasks_completed = IF loc[p].additionalTasks > 0
                                        THEN loc[p].uStats.tasks_completed + loc[p].additionalTasks
                                        ELSE @]]_vars

\* each tab has completed one task with no storage call failing, and the
\* stored count is below the 4 that the two completions leave when one runs
\* after the other
LastWriteWinsReached ==
  /\ \A p \in Tabs :
       /\ pc[p] = "idle" /\ loc[p].op = "toggleTaskCompletion" /\ ~loc[p].completed
       /\ ~loc[p].failed /\ loc[p].ude = "written"
  /\ \A id \in {1, 2} : tasks[id].completed
  /\ user_stats[today].tasks_completed < 4


\* C22: with today's row present, every successful updateDailyEfficiency
\* with additionalTasks = d > 0 leaves tasks_completed d above what it was
\* when the call began, also when the call before it had the same argument.
EachCallAddsDelta ==
  [][\A p \in Procs :
       (Returns(p) /\ loc[p].op = "updateDailyEfficiency"
          /\ loc[p].additionalTasks > 0 /\ loc'[p].ude = "written")
       => user_stats'[today].tasks_completed =
            loc[p].pre.tasks_completed + loc[p].additionalTasks]_vars

\* two calls with additionalTasks = 1 were made one after the other
EachCallAddsDeltaReached ==
  \E p \in Procs :
    /\ pc[p] = "idle" /\ loc[p].op = "updateDailyEfficiency"
    /\ loc[p].additionalTasks = 1 /\ loc[p].ude = "written"
    /\ loc[p].prev.additionalTasks = 1 /\ loc[p].prev.ude = "written"
    /\ user_stats[today].tasks_completed >= 2


\* a form createTask and updateTask must not send: a field is empty, the date
\* is not one, or the end is not after the start
BadForm(form) == ~form.filled \/ form.day = 0 \/ form.end_time <= form.start_time

TaskQueryFailureScoresUnplanned ==
  [][\A p \in Procs :
       /\ (pc[p] = "ude_tasks" /\ ~loc[p].failed /\ loc'[p].failed) =>
            /\ pc'[p] = "ude_update"
            /\ loc'[p].tasksPlanned = 0
            /\ user_stats' = user_stats
       /\ (pc[p] = "ude_update" /\ loc[p].tasksPlanned = 0 /\ loc'[p].ude = "written") =>
            LET d == loc[p].uToday
                row == user_stats[d]
            IN user_stats'[d].efficiency_score =
                 calculateEfficiency(0, row.tasks_completed + loc[p].additionalTasks,
                                     row.pomodoro_sessions, row.focus_time)
  ]_vars

\* the query failed on a day that has tasks, and the score written is not
\* the one the tasks of the day would have given
TaskQueryFailureScoresUnplannedReached ==
  \E p \in Procs :
    LET row == user_stats[today]
    IN /\ pc[p] = "idle" /\ loc[p].failed /\ loc[p].ude = "written"
       /\ TasksOn(today) # {}
       /\ row.efficiency_score = calculateEfficiency(0, row.tasks_completed,
                                     row.pomodoro_sessions, row.focus_time)
       /\ row.efficiency_score # calculateEfficiency(Cardinality(TasksOn(today)),
                                     row.tasks_completed, row.pomodoro_sessions, row.focus_time)

\* C26: the minutes a work interval adds to focus_time of today's row are the
\* time spent in the configured interval: round(W / 60) when it ran down to
\* zero and round((W - timeLeft) / 60) when Complete ended it, W being the
\* work length of the strategy, or 1500 seconds without one.
FocusMinutesAreTimeSpent ==
  [][\A p \in Procs :
       (pc[p] = "te_write" /\ pc'[p] # "te_write" /\ ~loc'[p].failed) =>
         LET l == loc[p]
             d == l.hToday
             W == OrElse(l.cStrategy.workDuration, WORK_DURATION)
             spent == IF l.manual THEN W - l.cTimeLeft ELSE W
         IN user_stats'[d].focus_time = user_stats[d].focus_time + RoundMinutes(spent)
  ]_vars

\* the step in which handleTimerEnd runs its tail: after the updater for a
\* work interval, straight after getUser for a break
WorkEnds(p) ==
  /\ loc[p].op = "handleTimerEnd" /\ ~loc[p].cIsBreak
  /\ pc[p] \notin {"idle", "te_getUser"} /\ pc'[p] = "idle"

BreakEnds(p) ==
  /\ loc[p].op = "handleTimerEnd" /\ loc[p].cIsBreak
  /\ pc[p] = "te_getUser" /\ authenticated /\ pc'[p] = "idle"

\* C27: when a work interval has ended for a signed-in user, cycleCount is
\* one higher, the timer stands and a break is on; without a strategy the
\* break is 900 seconds and 'Long Break' exactly when the new cycleCount is a
\* multiple of 4, and 300 seconds and 'Short Break' otherwise. When a break
\* has ended, work is on again, the status is 'Focus Time', timeLeft is the
\* work length and cycleCount is as it was.
RoundsAlternate ==
  [][\A p \in Procs :
       /\ WorkEnds(p) =>
            /\ cycleCount' = cycleCount + 1
            /\ ~isRunning' /\ isBreak'
            /\ focusStrategy' = NoStrategy =>
                 IF cycleCount' % 4 = 0
                   THEN timeLeft' = 900 /\ status' = "Long Break"
                   ELSE timeLeft' = 300 /\ status' = "Short Break"
       /\ BreakEnds(p) =>
            /\ ~isBreak' /\ ~isRunning'
            /\ status' = "Focus Time"
            /\ timeLeft' = OrElse(focusStrategy'.workDuration, WORK_DURATION)
            /\ cycleCount' = cycleCount
  ]_vars

\* C28: without a strategy, the duration of the pomodoro_sessions row that
\* handleStart inserts for a break is the break length the timer was set to
\* when the preceding work interval ended, at every cycleCount >= 1.
BreakDurationRecorded ==
  [][\A p \in Procs :
       (/\ pc[p] = "hs_insert" /\ pc'[p] = "idle" /\ ~loc'[p].failed
        /\ loc[p].cIsBreak /\ loc[p].cStrategy = NoStrategy
        /\ cycleCount >= 1) =>
         /\ currentSessionId'.mode = "break"
         /\ currentSessionId'.duration = timeLeft
  ]_vars

\* a step that only lowers timeLeft: the interval callback
OnlyTimeLeftFalls ==
  /\ timeLeft' < timeLeft
  /\ UNCHANGED <<storeVars, procVars, calcVars, isRunning, isBreak, cycleCount,
                 status, focusStrategy, task, currentSessionId>>

\* C29: timeLeft is never negative. A tick takes exactly 1 off timeLeft and
\* happens only while isRunning and timeLeft > 0; Pause leaves timeLeft as it
\* is; when timeLeft is 0 while running, the step that follows on the timer is
\* the interval-end handler, which sets isRunning to false, and not a tick.
TimeLeftNeverNegative ==
  [][/\ timeLeft >= 0 /\ timeLeft' >= 0
     /\ OnlyTimeLeftFalls => isRunning /\ timeLeft > 0 /\ timeLeft' = timeLeft - 1
     /\ handlePause => timeLeft' = timeLeft /\ ~isRunning'
     /\ \A p \in Procs :
          (isRunning /\ timeLeft = 0 /\ pc'[p] # pc[p]) =>
            /\ pc'[p] = "te_getUser" /\ loc'[p].op = "handleTimerEnd"
            /\ ~isRunning' /\ timeLeft' = 0
  ]_vars

\* the timer ran down to zero and the interval-end handler has stopped it
TimeLeftNeverNegativeReached ==
  /\ timeLeft = 0 /\ ~isRunning
  /\ pc["tab1"] = "te_getUser" /\ ~loc["tab1"].manual
  /\ currentSessionId.mode = "work"

\* the latest calendar day that has a row, 0 when there is none
MostRecentDay(rows) ==
  LET days == {d \in DOMAIN rows : rows[d].exists}
  IN IF days = {} THEN 0 ELSE CHOOSE d \in days : \A e \in days : e <= d

\* days in a row, from day d backwards, that have a row with activity
RECURSIVE ActiveRun(_, _)
ActiveRun(rows, d) ==
  IF d = 0 THEN 0
  ELSE IF rows[d].exists /\ (rows[d].pomodoro_sessions > 0 \/ rows[d].tasks_completed > 0
                             \/ rows[d].focus_time > 0)
    THEN 1 + ActiveRun(rows, d - 1)
    ELSE 0

\* the streak as stated, for a given calendar day taken as today
StatedStreak(rows, day) ==
  IF MostRecentDay(rows) < day - 1 THEN 0 ELSE ActiveRun(rows, MostRecentDay(rows))

\* C30: the streak Analytics shows is 0 when the latest row's date is more
\* than one day before today, and otherwise the number of consecutive
\* calendar days, counted backwards from that date, that each have a row with
\* activity. Today is taken as the date of the user's clock or as the UTC date
\* the rows are keyed by: the streak has to agree with one of the two.
StreakAsStated ==
  (analytics.data = "rows" /\ MostRecentDay(analytics.rows) > 0) =>
    streak \in {StatedStreak(analytics.rows, analytics.now \div HoursPerDay),
                StatedStreak(analytics.rows,
                             (analytics.now + analytics.offset) \div HoursPerDay)}

====
